---- MODULE Spec2Model ----
(***************************************************************************)
(* A model of pcc/include/purescript_gc.hh: the managed-reference facade   *)
(* (managed<T>, make_managed, make_managed_and_finalized and the macros     *)
(* WITH_ALLOCATOR, POINTER_FROM_MEMBER, INITIALIZE_GC) over its two         *)
(* build-time backends: the tracing collector (USE_GC defined: T* into       *)
(* collector memory, new (GC) T, finalizer lambda) and reference counting   *)
(* (USE_GC not defined: std::shared_ptr<T>, std::make_shared<T>).           *)
(*                                                                         *)
(* A heap of MaxAddr cells holds the objects; handles live on the stacks   *)
(* of NumThreads threads and in one shared container (the memory obtained  *)
(* through WITH_ALLOCATOR).  The collector is not part of the header: it   *)
(* is modelled from the specification's description of it.  The header     *)
(* puts no order on the facade's operations: INITIALIZE_GC may be invoked  *)
(* at any time, any number of times, or never, and                         *)
(* the factories may be called before it.  The program holds at most       *)
(* MaxHandles handles at a time and constructs at most MaxAllocs objects.  *)
(***************************************************************************)
EXTENDS Integers, FiniteSets, Sequences, TLC

\* ---------------------------------------------------------------- bounds
NumThreads == 2
MaxAddr == 2
MaxHandles == 2
MaxAllocs == 2
MaxArg == 1

Threads == 1..NumThreads
Addrs == 1..MaxAddr
Args == 0..MaxArg
Null == 0
NoThread == 0

VARIABLES
  USE_GC,          \* the build flag: TRUE = tracing backend, FALSE = reference counting
  pc,              \* the process: "run", or "aborted" once it has been terminated
  gcInitialized,   \* the collector has been initialized (GC_INIT has run)
  initInvoked,     \* INITIALIZE_GC has been invoked and expanded to code
  heap,            \* Addrs -> cell
  stack,           \* Threads -> Addrs -> number of handles on the thread's stack
  box,             \* Addrs -> number of handles stored in the shared container
  tpc,             \* Threads -> the handle release a thread is in the middle of
  ret,             \* the last program step's facade call: op, the object ref, and for
                   \* "make" its argument and the value read through the returned
                   \* reference, for "extract" the use count before and the address
                   \* returned, for "destroy" the releasing and the constructing thread
  constructed,     \* objects constructed through the facade
  constructedPlain,\* ... of which through make_managed
  dtorCount,       \* the global counter the destructor of T increments
  fullyCollected   \* a forced full collection ran and the program has not acted since

vars == <<USE_GC, pc, gcInitialized, initInvoked, heap, stack, box,
          tpc, ret, constructed, constructedPlain, dtorCount, fullyCollected>>

\* ------------------------------------------------------- the test type T
\* T(a): a directly constructed value of the test type, from its argument.
T(a) == [x |-> a]

FreeCell == [state |-> "free", kind |-> "none", fin |-> FALSE,
             count |-> 0, dtors |-> 0, owner |-> NoThread]
\* The last program step was no facade call that returns a value.
NoCall == [op |-> "none", ref |-> Null, arg |-> 0, val |-> 0]
Idle == [op |-> "idle", obj |-> Null, seen |-> 0]

\* ------------------------------------------------------------ the macros
\* WITH_ALLOCATOR(T): under USE_GC containers get traceable_allocator<T>, so
\* the collector scans the handles stored in them; otherwise nothing is added.
\* (Faulty variant: the reference-counting branch's empty definition.)
WITH_ALLOCATOR_none == FALSE
WITH_ALLOCATOR == USE_GC

\* MAKE_MANAGED(T)(args) under USE_GC: new (GC) T(args), no finalizer.
\* (Faulty variant: a finalizer is registered.)
GC_MAKE_MANAGED_registering(a) == [value |-> T(a), fin |-> TRUE, count |-> 0]
GC_MAKE_MANAGED(a) == [value |-> T(a), fin |-> FALSE, count |-> 0]

\* MAKE_MANAGED_FINALIZED(T)(args) under USE_GC: new (GC, lambda) T(args).
\* (Faulty variant: the cleanup function is left out.)
GC_MAKE_MANAGED_FINALIZED_unregistered(a) == [value |-> T(a), fin |-> FALSE, count |-> 0]
GC_MAKE_MANAGED_FINALIZED(a) == [value |-> T(a), fin |-> TRUE, count |-> 0]

\* MAKE_MANAGED(T)(args) without USE_GC: std::make_shared<T>(args), use count 1.
\* (Faulty variant: an owner that is never released.)
RC_MAKE_MANAGED_extra_owner(a) == [value |-> T(a), fin |-> FALSE, count |-> 2]
RC_MAKE_MANAGED(a) == [value |-> T(a), fin |-> FALSE, count |-> 1]

\* MAKE_MANAGED_FINALIZED(T) without USE_GC: MAKE_MANAGED(T).
\* (Faulty variant: a finalizer is registered as under USE_GC.)
RC_MAKE_MANAGED_FINALIZED_registering(a) == [value |-> T(a), fin |-> TRUE, count |-> 1]
RC_MAKE_MANAGED_FINALIZED(a) == RC_MAKE_MANAGED(a)

\* make_managed<T>(args...): MAKE_MANAGED(T)(std::forward<Args>(args)...).
\* (Faulty variant: the arguments are not forwarded.)
make_managed_default_constructed(a) ==
  IF USE_GC THEN GC_MAKE_MANAGED(0) ELSE RC_MAKE_MANAGED(0)
make_managed(a) ==
  IF USE_GC THEN GC_MAKE_MANAGED(a) ELSE RC_MAKE_MANAGED(a)

\* make_managed_and_finalized<T>(args...).
make_managed_and_finalized(a) ==
  IF USE_GC THEN GC_MAKE_MANAGED_FINALIZED(a) ELSE RC_MAKE_MANAGED_FINALIZED(a)

\* MANAGED_TYPE(T): T* under USE_GC (the handle is the address), else
\* std::shared_ptr<T> (the handle names the object and its control block).
MANAGED_TYPE(o) == IF USE_GC THEN o ELSE [ptr |-> o, ctl |-> o]

\* std::shared_ptr<T> copy: the use count is incremented atomically.
\* T* copy: nothing is counted.
MANAGED_TYPE_copy(cur) == IF USE_GC THEN cur ELSE cur + 1

\* std::shared_ptr<T> destructor: an atomic decrement of the current use
\* count (seen is the count when the destructor was entered).
\* (Faulty variant: a handle type whose count is read on entry and written
\* back later, not updated atomically.)
MANAGED_TYPE_release_unsynchronized(cur, seen) == IF USE_GC THEN cur ELSE seen - 1
MANAGED_TYPE_release(cur, seen) == IF USE_GC THEN cur ELSE cur - 1

\* POINTER_FROM_MEMBER(P): P under USE_GC, P.get() otherwise.  The result is
\* the address and the use count the handle's object is left with.
\* (Faulty variant: the extraction takes a share of the object.)
POINTER_FROM_MEMBER_copying(P, cnt) ==
  [addr |-> IF USE_GC THEN P ELSE P.ptr, count |-> IF USE_GC THEN cnt ELSE cnt + 1]
POINTER_FROM_MEMBER(P, cnt) ==
  [addr |-> IF USE_GC THEN P ELSE P.ptr, count |-> cnt]

\* INITIALIZE_GC(_): GC_INIT() under USE_GC, empty otherwise.
\* (Faulty variant: the reference-counting branch's empty definition.)
INITIALIZE_GC_empty(init) == init
INITIALIZE_GC(init) == IF USE_GC THEN TRUE ELSE init

\* The finalizer lambda of MAKE_MANAGED_FINALIZED: static_cast<T*>(p)->~T().
\* (Faulty variant: the lambda does not call the destructor.)
Finalizer_skips_destructor(cell) == cell
Finalizer(cell) == [cell EXCEPT !.dtors = @ + 1]

\* ------------------------------------------------------------- helpers
RECURSIVE SumStack(_, _)
SumStack(o, n) == IF n = 0 THEN 0 ELSE stack[n][o] + SumStack(o, n - 1)

Releasing(o) == {t \in Threads : tpc[t].op = "release" /\ tpc[t].obj = o}

\* Handles to o the program holds: on stacks, in the container, and those
\* whose destructor has been entered and has not yet released.
Held(o) == SumStack(o, NumThreads) + box[o] + Cardinality(Releasing(o))

\* What the collector sees of them: thread stacks (GC_THREADS) and the
\* memory of traceable containers.
Reachable(o) ==
  \/ \E t \in Threads : stack[t][o] > 0
  \/ Releasing(o) # {}
  \/ WITH_ALLOCATOR /\ box[o] > 0

RECURSIVE SumHeld(_)
SumHeld(n) == IF n = 0 THEN 0 ELSE Held(n) + SumHeld(n - 1)
\* All the handles the program holds.
TotalHandles == SumHeld(MaxAddr)

Allocatable(o) == heap[o].state \in {"free", "reclaimed"}
Unreachable == {o \in Addrs : heap[o].state \in {"live", "finalized"} /\ ~Reachable(o)}

\* ---------------------------------------------------------- the process
\* The process has not been terminated (by an allocation that failed).
Running == pc = "run"

Init ==
  /\ USE_GC \in BOOLEAN
  /\ pc = "run"
  /\ gcInitialized = FALSE
  /\ initInvoked = FALSE
  /\ heap = [o \in Addrs |-> FreeCell]
  /\ stack = [t \in Threads |-> [o \in Addrs |-> 0]]
  /\ box = [o \in Addrs |-> 0]
  /\ tpc = [t \in Threads |-> Idle]
  /\ ret = NoCall
  /\ constructed = 0
  /\ constructedPlain = 0
  /\ dtorCount = 0
  /\ fullyCollected = FALSE

\* An invocation of INITIALIZE_GC, wherever the program makes it: GC_INIT()
\* under USE_GC, nothing otherwise.  Nothing in the header makes it the
\* first facade operation or keeps it from being repeated.
InitializeRuntime ==
  /\ Running
  /\ gcInitialized' = INITIALIZE_GC(gcInitialized)
  /\ initInvoked' = (initInvoked \/ USE_GC)
  /\ ret' = NoCall
  /\ UNCHANGED <<USE_GC, pc, heap, stack, box, tpc, constructed,
                 constructedPlain, dtorCount, fullyCollected>>

\* The cells a new object may be placed in.  Where new (GC) T and
\* std::make_shared<T> put the object is the allocator's choice: fresh
\* memory or any block that has been given back.
Placements == {o \in Addrs : Allocatable(o)}

\* What a factory call does when the collector was never initialized: the
\* behaviour is undefined, the call may go through or end the process.
UninitializedOutcomes ==
  IF USE_GC /\ ~gcInitialized THEN {"returns", "crashes"} ELSE {"returns"}

\* A factory call of thread t that returns: the object is allocated,
\* constructed from the forwarded argument, and its handle returned to t.
Construct(t, a, kind, obj) ==
  /\ Running
  /\ tpc[t] = Idle
  /\ constructed < MaxAllocs
  /\ TotalHandles < MaxHandles
  /\ Placements # {}
  /\ \E outcome \in UninitializedOutcomes :
       IF outcome = "returns"
         THEN /\ \E p \in Placements :
                   /\ heap' = [heap EXCEPT ![p] =
                        [state |-> "live", kind |-> kind, fin |-> obj.fin,
                         count |-> obj.count, dtors |-> 0,
                         owner |-> IF USE_GC THEN NoThread ELSE t]]
                   /\ stack' = [stack EXCEPT ![t][p] = @ + 1]
                   /\ ret' = [op |-> "make", ref |-> p, arg |-> a, val |-> obj.value]
              /\ constructed' = constructed + 1
              /\ constructedPlain' = constructedPlain + (IF kind = "plain" THEN 1 ELSE 0)
              /\ pc' = pc
         ELSE /\ pc' = "aborted"
              /\ ret' = NoCall
              /\ UNCHANGED <<heap, stack, constructed, constructedPlain>>
  /\ fullyCollected' = FALSE
  /\ UNCHANGED <<USE_GC, gcInitialized, initInvoked, box, tpc, dtorCount>>

MakeManaged(t, a) == Construct(t, a, "plain", make_managed(a))

MakeManagedAndFinalized(t, a) ==
  Construct(t, a, "finalized", make_managed_and_finalized(a))

\* Allocation exhaustion: every cell holds an object the program still
\* reaches, the factory does not return and the process ends.
AllocationFailure(t) ==
  /\ Running
  /\ tpc[t] = Idle
  /\ \A o \in Addrs : heap[o].state = "live" /\ Reachable(o)
  /\ pc' = "aborted"
  /\ ret' = NoCall
  /\ UNCHANGED <<USE_GC, gcInitialized, initInvoked, heap, stack, box,
                 tpc, constructed, constructedPlain, dtorCount, fullyCollected>>

\* Thread t copies a handle it holds: onto its own stack, into the shared
\* container, or into another thread's stack (passing it by value).
CopyHandle(t, o, dst) ==
  /\ Running
  /\ tpc[t] = Idle
  /\ stack[t][o] > 0
  /\ TotalHandles < MaxHandles
  /\ heap' = [heap EXCEPT ![o].count = MANAGED_TYPE_copy(@)]
  /\ IF dst = NoThread
       THEN box' = [box EXCEPT ![o] = @ + 1] /\ UNCHANGED stack
       ELSE stack' = [stack EXCEPT ![dst][o] = @ + 1] /\ UNCHANGED box
  /\ ret' = NoCall
  /\ fullyCollected' = FALSE
  /\ UNCHANGED <<USE_GC, pc, gcInitialized, initInvoked, tpc,
                 constructed, constructedPlain, dtorCount>>

\* Thread t lets go of a handle: one of its own, or one it erases from the
\* shared container.  A T* just goes away; the destructor of a
\* std::shared_ptr<T> is entered.
ReleaseBegin(t, o, fromBox) ==
  /\ Running
  /\ tpc[t] = Idle
  /\ IF fromBox
       THEN box[o] > 0 /\ box' = [box EXCEPT ![o] = @ - 1] /\ UNCHANGED stack
       ELSE stack[t][o] > 0 /\ stack' = [stack EXCEPT ![t][o] = @ - 1] /\ UNCHANGED box
  /\ tpc' = IF USE_GC THEN tpc
            ELSE [tpc EXCEPT ![t] = [op |-> "release", obj |-> o, seen |-> heap[o].count]]
  /\ ret' = NoCall
  /\ fullyCollected' = FALSE
  /\ UNCHANGED <<USE_GC, pc, gcInitialized, initInvoked, heap,
                 constructed, constructedPlain, dtorCount>>

\* The destructor of the std::shared_ptr<T> decrements the use count, and
\* the thread that brings it to zero destroys the value and frees its memory.
ReleaseEnd(t) ==
  /\ Running
  /\ tpc[t].op = "release"
  /\ LET o == tpc[t].obj
         n == MANAGED_TYPE_release(heap[o].count, tpc[t].seen)
     IN /\ heap' = [heap EXCEPT ![o] =
             IF n = 0
               THEN [@ EXCEPT !.count = n, !.dtors = @ + 1,
                              !.state = "reclaimed", !.owner = NoThread]
               ELSE [@ EXCEPT !.count = n]]
        /\ dtorCount' = dtorCount + (IF n = 0 THEN 1 ELSE 0)
        /\ ret' = IF n = 0
                    THEN [op |-> "destroy", ref |-> o, arg |-> t, val |-> heap[o].owner]
                    ELSE NoCall
  /\ tpc' = [tpc EXCEPT ![t] = Idle]
  /\ UNCHANGED <<USE_GC, pc, gcInitialized, initInvoked, stack, box,
                 constructed, constructedPlain, fullyCollected>>

\* POINTER_FROM_MEMBER applied to a handle thread t holds.
ExtractAddress(t, o) ==
  /\ Running
  /\ tpc[t] = Idle
  /\ stack[t][o] > 0
  /\ LET r == POINTER_FROM_MEMBER(MANAGED_TYPE(o), heap[o].count)
     IN /\ ret' = [op |-> "extract", ref |-> o, arg |-> heap[o].count, val |-> r.addr]
        /\ heap' = [heap EXCEPT ![o].count = r.count]
  /\ UNCHANGED <<USE_GC, pc, gcInitialized, initInvoked, stack, box, tpc,
                 constructed, constructedPlain, dtorCount, fullyCollected>>

\* ------------------------------------------------------- the collector
\* What a collection does to the unreachable objects S it found: one with a
\* registered finalizer is finalized (the finalizer is unregistered and
\* run), any other has its memory reclaimed.
Swept(S) ==
  [o \in Addrs |->
     IF o \notin S THEN heap[o]
     ELSE IF heap[o].state = "live" /\ heap[o].fin
       THEN [Finalizer(heap[o]) EXCEPT !.state = "finalized", !.fin = FALSE]
       ELSE [heap[o] EXCEPT !.state = "reclaimed"]]

\* The destructor runs a collection of S performs, each incrementing the
\* global counter.
RECURSIVE DtorRuns(_, _)
DtorRuns(S, n) ==
  IF n = 0 THEN 0 ELSE (Swept(S)[n].dtors - heap[n].dtors) + DtorRuns(S, n - 1)

\* A collection the collector starts on its own; it may find only part of
\* the garbage.
Collect(S) ==
  /\ USE_GC
  /\ Running
  /\ S # {}
  /\ S \subseteq Unreachable
  /\ heap' = Swept(S)
  /\ dtorCount' = dtorCount + DtorRuns(S, MaxAddr)
  /\ UNCHANGED <<USE_GC, pc, gcInitialized, initInvoked, stack, box, tpc,
                 ret, constructed, constructedPlain, fullyCollected>>

\* A forced full collection (the explicit collection trigger): everything
\* unreachable is found.
ForceCollect ==
  /\ USE_GC
  /\ Running
  /\ heap' = Swept(Unreachable)
  /\ dtorCount' = dtorCount + DtorRuns(Unreachable, MaxAddr)
  /\ fullyCollected' = TRUE
  /\ UNCHANGED <<USE_GC, pc, gcInitialized, initInvoked, stack, box, tpc,
                 ret, constructed, constructedPlain>>

\* ------------------------------------------------------ specifications
Facade ==
  \/ InitializeRuntime
  \/ \E t \in Threads, a \in Args : MakeManaged(t, a)
  \/ \E t \in Threads, a \in Args : MakeManagedAndFinalized(t, a)
  \/ \E t \in Threads : AllocationFailure(t)
  \/ \E t \in Threads, o \in Addrs, dst \in Threads \cup {NoThread} : CopyHandle(t, o, dst)
  \/ \E t \in Threads, o \in Addrs, fromBox \in BOOLEAN : ReleaseBegin(t, o, fromBox)
  \/ \E t \in Threads, o \in Addrs : ExtractAddress(t, o)

SharedRelease == \E t \in Threads : ReleaseEnd(t)

Collector ==
  \/ \E S \in SUBSET Addrs : Collect(S)
  \/ ForceCollect

\* Either backend.
Next == Facade \/ SharedRelease \/ Collector
Spec == Init /\ [][Next]_vars

\* The tracing backend (USE_GC defined).
InitGC == Init /\ USE_GC
NextGC == Facade \/ Collector
SpecGC == InitGC /\ [][NextGC]_vars

\* The reference-counting backend (USE_GC not defined): no collector runs.
InitRC == Init /\ ~USE_GC
NextRC == Facade \/ SharedRelease
SpecRC == InitRC /\ [][NextRC]_vars


\* ---------------------------------------------------------------- claims
IsObject(o) == heap[o].state # "free"
FinalizedKind == {o \in Addrs : IsObject(o) /\ heap[o].kind = "finalized"}

\* C1: under reference counting, a value is alive and undestroyed while a
\* copy of its handle is held, and once the last copy has been released its
\* destructor has run exactly once.
C1_RefCountLifetime ==
  ~USE_GC =>
    \A o \in Addrs : IsObject(o) =>
      /\ Held(o) > 0 => heap[o].state = "live" /\ heap[o].dtors = 0
      /\ Held(o) = 0 => heap[o].state = "reclaimed" /\ heap[o].dtors = 1

\* The constructing thread let go of its handle and the value lives on
\* through another copy, while another value was destroyed on last release.
C1_Witness ==
  /\ ~USE_GC
  /\ \E o \in Addrs :
       /\ heap[o].state = "live" /\ heap[o].owner \in Threads
       /\ stack[heap[o].owner][o] = 0 /\ tpc[heap[o].owner] = Idle
       /\ Held(o) > 0
  /\ \E o \in Addrs : heap[o].state = "reclaimed" /\ heap[o].dtors = 1 /\ Held(o) = 0

\* C2: under the tracing backend, an object of make_managed_and_finalized
\* that the program no longer reaches can be collected, its finalizer runs
\* at most once, and has run exactly once when its memory is reclaimed for
\* reuse: every such object ever constructed either was finalized once or
\* still occupies its memory unfinalized.
C2_FinalizedBeforeReuse ==
  USE_GC =>
    /\ \A o \in FinalizedKind :
         /\ heap[o].dtors <= 1
         /\ heap[o].state \in {"finalized", "reclaimed"} => heap[o].dtors = 1
         /\ (pc = "run" /\ heap[o].state = "live" /\ Held(o) = 0) => ENABLED Collect({o})
    /\ dtorCount + Cardinality({o \in FinalizedKind : heap[o].dtors = 0})
         = constructed - constructedPlain

\* The one cell in use was allocated twice by make_managed_and_finalized:
\* its memory was reused after the first object's finalizer ran.
C2_Witness ==
  /\ USE_GC
  /\ constructed = 2 /\ constructedPlain = 0
  /\ heap[1].state = "live" /\ \A o \in Addrs : o # 1 => heap[o].state = "free"
  /\ dtorCount = 1

\* C3: under the tracing backend, no object is finalized or reclaimed while
\* the program still holds a handle to it, however many alias it.
C3_NeverCollectedWhileReachable ==
  USE_GC =>
    \A o \in Addrs :
      (heap[o].state \in {"finalized", "reclaimed"} \/ heap[o].dtors > 0) => Held(o) = 0

\* After a forced full collection one object has been finalized, and another,
\* whose only handle sits in a container, is still alive.
C3_Witness ==
  /\ USE_GC /\ fullyCollected
  /\ \E o \in Addrs : heap[o].state = "finalized" /\ heap[o].dtors = 1
  /\ \E o \in Addrs :
       heap[o].state = "live" /\ box[o] > 0 /\ \A t \in Threads : stack[t][o] = 0

\* The end of the end-to-end scenario: objects were constructed, every
\* handle has been dropped, and the backend's reclamation path has run.
Reclaimed ==
  /\ pc = "run"
  /\ constructed > 0
  /\ TotalHandles = 0
  /\ USE_GC => fullyCollected

\* C4 as stated: for either backend, after N constructions through the
\* facade, dropping every handle and reclaiming, the counter equals N.
C4_AsStated == Reclaimed => dtorCount = constructed

\* C4 as amended: the counter equals N when the objects were constructed
\* by make_managed_and_finalized (by either factory under reference
\* counting); objects of make_managed under the tracing backend add nothing.
C4_CounterEqualsFinalized ==
  Reclaimed => dtorCount = constructed - (IF USE_GC THEN constructedPlain ELSE 0)

\* MaxAllocs objects of make_managed_and_finalized, all dropped and
\* collected under the tracing backend, each destructed once.
C4_Witness ==
  /\ USE_GC /\ Reclaimed
  /\ constructed = MaxAllocs /\ constructedPlain = 0
  /\ dtorCount = MaxAllocs

C6_SharedCountIntegrity ==
  ~USE_GC =>
    /\ \A o \in Addrs :
         /\ heap[o].dtors <= 1
         /\ heap[o].state = "live" => heap[o].count = Held(o) /\ heap[o].count > 0
         /\ heap[o].state = "reclaimed" => heap[o].count = 0 /\ Held(o) = 0
    /\ ret.op = "destroy" =>
         /\ heap[ret.ref].state = "reclaimed" /\ heap[ret.ref].dtors = 1
         /\ ret.arg \in Threads /\ tpc[ret.arg] = Idle

\* A value was just destroyed by a thread that did not construct it.
C6_Witness ==
  /\ ~USE_GC
  /\ ret.op = "destroy" /\ ret.arg # ret.val /\ ret.val \in Threads

\* C7: make_managed returns a non-null reference to a live object whose
\* value is that of T constructed directly from the same arguments; a call
\* that cannot allocate returns nothing.
C7_ConstructionFidelity ==
  /\ (ret.op = "make" /\ heap[ret.ref].kind = "plain") =>
       /\ ret.ref # Null /\ ret.ref \in Addrs
       /\ heap[ret.ref].state = "live"
       /\ \E t \in Threads : stack[t][ret.ref] > 0
       /\ ret.val = T(ret.arg)
  /\ pc = "aborted" => ret.op # "make"

C7_Witness ==
  ret.op = "make" /\ heap[ret.ref].kind = "plain" /\ ret.arg = MaxArg /\ ret.val = T(MaxArg)

\* C8: POINTER_FROM_MEMBER returns the address of the handle's object and
\* changes nothing: not the use count, not a handle, not an object.
C8_ExtractionChangesNothing ==
  [][\A t \in Threads, o \in Addrs :
       ExtractAddress(t, o) =>
         /\ ret'.val = o
         /\ USE_GC => ret'.val = MANAGED_TYPE(o)
         /\ heap' = heap /\ stack' = stack /\ box' = box /\ tpc' = tpc
         /\ dtorCount' = dtorCount]_vars

\* An address was extracted from a handle of a value with two owners.
C8_Witness ==
  ~USE_GC /\ ret.op = "extract" /\ heap[ret.ref].count = 2 /\ ret.arg = 2 /\ ret.val = ret.ref

\* C9: under reference counting an object of make_managed_and_finalized
\* behaves as one of make_managed: use count 1 on return, no finalizer
\* registered, and with the same number of handles held the two are in the
\* same state, destroyed on last release with one destructor run.
C9_FinalizedSameAsPlain ==
  ~USE_GC =>
    /\ \A o \in Addrs : ~heap[o].fin
    /\ ret.op = "make" => heap[ret.ref].count = 1 /\ Held(ret.ref) = 1
    /\ \A o1 \in Addrs, o2 \in Addrs :
         (heap[o1].kind = "plain" /\ heap[o2].kind = "finalized" /\ Held(o1) = Held(o2)) =>
           /\ heap[o1].state = heap[o2].state
           /\ heap[o1].count = heap[o2].count
           /\ heap[o1].dtors = heap[o2].dtors

\* One object of each factory, both destroyed on their last release.
C9_Witness ==
  /\ ~USE_GC
  /\ \E o1 \in Addrs, o2 \in Addrs :
       /\ heap[o1].kind = "plain" /\ heap[o2].kind = "finalized"
       /\ heap[o1].state = "reclaimed" /\ heap[o2].state = "reclaimed"
       /\ heap[o1].dtors = 1 /\ heap[o2].dtors = 1

\* C10: under the tracing backend an object of make_managed has no
\* finalizer and its destructor never runs, also once it is unreachable and
\* reclaimed; only objects of make_managed_and_finalized are destructed.
C10_PlainNeverDestructed ==
  USE_GC =>
    /\ \A o \in Addrs : (IsObject(o) /\ heap[o].kind = "plain") =>
         ~heap[o].fin /\ heap[o].dtors = 0
    /\ dtorCount <= constructed - constructedPlain

\* An object of make_managed was reclaimed without its destructor running.
C10_Witness ==
  /\ USE_GC
  /\ \E o \in Addrs :
       heap[o].kind = "plain" /\ heap[o].state = "reclaimed" /\ heap[o].dtors = 0
  /\ dtorCount = 0

====
